---------------------------- MODULE Spec2Model ----------------------------
(***************************************************************************)
(* wmienumall: WmiEnum_new walks the WMI namespace (classes, instances,    *)
(* properties), filters class and property names with two regular          *)
(* expressions and collects the matches in a WmiEnum, which the flat       *)
(* WmiEnum_* accessors expose.  The operating system (COM / WMI) is the    *)
(* environment: every call into it answers with a nondeterministic HRESULT *)
(* and, for the enumerations, nondeterministic data.                       *)
(*                                                                         *)
(* Wide strings are sequences of one-character strings.  An optional<T>    *)
(* and a possibly-null pointer are sequences of length 0 (nullopt, NULL)   *)
(* or 1.                                                                   *)
(***************************************************************************)
EXTENDS Integers, Sequences, FiniteSets, TLC

---------------------------------------------------------------------------
(* Bounds of the model *)

\* Objects (classes + instances + properties) the OS hands out in one call
\* of WmiEnum_new.
MaxObjects == 4

\* Largest index the callers pass to the accessors.
MaxIndex == 2

\* Most elements of an array handed to Variant::getStrings on its own.
MaxElems == 3

---------------------------------------------------------------------------
(* Program constants *)

\* IWbemClassObject* apObj[128]; enumClasses->Next(WBEM_INFINITE, 128, ...)
ChunkSize == 128

\* HRESULT values (signed 32-bit)
S_OK == 0
S_FALSE == 1
WBEM_S_NO_MORE_DATA == 262149
E_FAIL == -2147467259

\* VARTYPE values and flags
VT_EMPTY == 0
VT_NULL == 1
VT_I4 == 3
VT_BSTR == 8
VT_DISPATCH == 9
VT_BOOL == 11
VT_VARIANT == 12
VT_UI1 == 17
VT_ARRAY == 8192
VT_BYREF == 16384

NULL == <<>>

Min(a, b) == IF a < b THEN a ELSE b

---------------------------------------------------------------------------
(* Strings and regular expressions (std::wregex, ECMAScript subset:        *)
(* literals, ".", postfix "*", and "(" which is never closed here)         *)

ClassNames == {<<"a">>, <<"a", "b">>}
PropertyNames == {<<"a">>, <<"a", "b">>}

Patterns == {<<".", "*">>, <<"a">>, <<"(">>, <<"*", "a">>}

\* The class patterns of the calls: "a" matches one of ClassNames and not
\* the other.
ClassPatterns == {<<"a">>, <<"(">>, <<"*", "a">>}

\* std::wregex's constructor: throws std::regex_error on an unbalanced "("
\* (error_paren) and on a "*" that follows no atom (error_badrepeat).
RECURSIVE ValidFrom(_, _, _)
ValidFrom(p, i, afterAtom) ==
    IF i > Len(p) THEN TRUE
    ELSE IF p[i] = "(" THEN FALSE
    ELSE IF p[i] = "*" THEN afterAtom /\ ValidFrom(p, i + 1, FALSE)
    ELSE ValidFrom(p, i + 1, TRUE)

RegexValid(p) == ValidFrom(p, 1, FALSE)

CharMatch(pc, c) == pc = "." \/ pc = c

\* Does p[i..] match exactly s[j..] ?
RECURSIVE MatchHere(_, _, _, _)
MatchHere(p, i, s, j) ==
    IF i > Len(p) THEN j > Len(s)
    ELSE IF i + 1 <= Len(p) /\ p[i + 1] = "*"
         THEN \/ MatchHere(p, i + 2, s, j)
              \/ /\ j <= Len(s)
                 /\ CharMatch(p[i], s[j])
                 /\ MatchHere(p, i, s, j + 1)
         ELSE /\ j <= Len(s)
              /\ CharMatch(p[i], s[j])
              /\ MatchHere(p, i + 1, s, j + 1)

\* std::regex_search: some substring of s matches.
regex_search(s, p) ==
    \E a \in 1..(Len(s) + 1) : \E b \in (a - 1)..Len(s) :
        MatchHere(p, 1, SubSeq(s, a, b), 1)

\* A match of a prefix of s (std::regex_search with match_continuous)
regex_match_Prefix(s, p) ==
    \E b \in 0..Len(s) : MatchHere(p, 1, SubSeq(s, 1, b), 1)

\* std::regex_match: the whole of s matches.
regex_match(s, p) == MatchHere(p, 1, s, 1)

---------------------------------------------------------------------------
(* HRESULT checking *)

HexChars == <<"0", "1", "2", "3", "4", "5", "6", "7",
              "8", "9", "a", "b", "c", "d", "e", "f">>

\* operator<<(std::hex, long): the 32-bit two's complement in hexadecimal.
RECURSIVE HexDigits(_)
HexDigits(n) ==
    IF n < 16 THEN <<HexChars[n + 1]>>
    ELSE Append(HexDigits(n \div 16), HexChars[(n % 16) + 1])

\* The k lowest hexadecimal digits of n >= 0
RECURSIVE FixedHex(_, _)
FixedHex(n, k) ==
    IF k = 0 THEN <<>>
    ELSE Append(FixedHex(n \div 16, k - 1), HexChars[(n % 16) + 1])

\* The magnitude of hres in hexadecimal
Hex_Magnitude(hres) == HexDigits(IF hres >= 0 THEN hres ELSE -(hres + 1))

\* hres as an unsigned 32-bit number in hexadecimal: a negative hres has bit
\* 31 set, so its first digit is 8 plus bits 28..30 (numbers stay below 2^31
\* here).
Hex(hres) ==
    IF hres >= 0 THEN HexDigits(hres)
    ELSE LET low31 == (hres + 2147483647) + 1
         IN  <<HexChars[8 + (low31 \div 268435456) + 1]>>
             \o FixedHex(low31 % 268435456, 7)

FAILED(hres) == hres < 0

SUCCEEDED(hres) == hres >= 0

\* what() of the std::runtime_error checkResult throws:
\* message << " Error code = 0x" << std::hex << hres << std::endl
ErrorText(message, hres) == [text |-> message, code |-> Hex(hres)]

RuntimeError(message, hres) ==
    [type |-> "std::runtime_error", what |-> ErrorText(message, hres)]

RegexError ==
    [type |-> "std::regex_error", what |-> [text |-> "regex_error", code |-> <<>>]]

BadOptionalAccess ==
    [type |-> "std::bad_optional_access",
     what |-> [text |-> "bad optional access", code |-> <<>>]]

LengthError ==
    [type |-> "std::length_error",
     what |-> [text |-> "basic_string::_M_create", code |-> <<>>]]

\* The answers a call into the OS can give.
HResults == {S_OK, S_FALSE, E_FAIL}

\* checkResult that lets every HRESULT pass
checkResult_Ignoring(hres, message) == <<>>

\* checkResult that takes every HRESULT but S_OK for an error
checkResult_Strict(hres, message) ==
    IF hres # S_OK THEN <<RuntimeError(message, hres)>> ELSE <<>>

\* checkResult(hres, message): the exceptions it throws (none: returns).
checkResult(hres, message) ==
    IF FAILED(hres) THEN <<RuntimeError(message, hres)>> ELSE <<>>

---------------------------------------------------------------------------
(* Variant: VARIANT values and their conversion to strings *)

\* (type & flag) != 0 for a one-bit flag
HasFlag(type, flag) == (type \div flag) % 2 = 1

\* VT_TYPEMASK: the element type of an array, the type of a scalar
ElemType(type) == type % 4096

\* A VARIANT: vt, and of the union the member vt selects: bstrVal, a number,
\* or the SAFEARRAY reached through parray (through *pparray with VT_BYREF),
\* given by its elements and the lower bound of its one dimension.
Variant(vt, bstr, num, elems, lbound) ==
    [vt |-> vt, bstr |-> bstr, num |-> num, elems |-> elems, lbound |-> lbound]

\* The property values the OS hands out during the walk.
WalkVariants ==
    { Variant(VT_NULL, <<>>, 0, <<>>, 0),
      Variant(VT_I4, <<>>, 7, <<>>, 0),
      Variant(VT_ARRAY + VT_BSTR, <<>>, 0, << <<"x">>, <<"y">> >>, 1),
      Variant(VT_ARRAY + VT_BOOL, <<>>, 0, << <<"raw">> >>, 0) }

\* The strings in the arrays handed to Variant::getStrings on its own.
ElementStrings == {<<>>, <<"x">>, <<"y">>}

RECURSIVE SeqsUpTo(_, _)
SeqsUpTo(S, n) ==
    IF n = 0 THEN {<<>>}
    ELSE LET shorter == SeqsUpTo(S, n - 1) IN
         shorter \cup {Append(q, e) : q \in shorter, e \in S}

LowerBounds == {-1, 0, 1}

\* The VARIANTs handed to Variant::getStrings on its own: the arrays of
\* strings, arrays of other element types, and the scalars.
ProbeVariants ==
    { Variant(vt, <<>>, 0, elems, lbound) :
        vt \in {VT_ARRAY + VT_BSTR, VT_ARRAY + VT_BYREF + VT_BSTR},
        elems \in SeqsUpTo(ElementStrings, MaxElems),
        lbound \in LowerBounds }
    \cup { Variant(VT_ARRAY + byref + type, <<>>, 0, << <<"raw">> >>, 0) :
        byref \in {0, VT_BYREF},
        type \in {VT_BOOL, VT_VARIANT, VT_DISPATCH, VT_I4, VT_UI1} }
    \cup { Variant(VT_EMPTY, <<>>, 0, <<>>, 0),
           Variant(VT_NULL, <<>>, 0, <<>>, 0),
           Variant(VT_I4, <<>>, 42, <<>>, 0),
           Variant(VT_BSTR, <<"x">>, 0, <<>>, 0),
           Variant(VT_BSTR, <<>>, 0, <<>>, 0) }

Digits == <<"0", "1", "2", "3", "4", "5", "6", "7", "8", "9">>

RECURSIVE Decimal(_)
Decimal(n) ==
    IF n < 10 THEN <<Digits[n + 1]>>
    ELSE Append(Decimal(n \div 10), Digits[(n % 10) + 1])

\* The bstrVal member read without a conversion
ChangeTypeToBstr_Raw(v) == v.bstr

\* VariantChangeType(newVariant, variant, VARIANT_ALPHABOOL, VT_BSTR) when it
\* succeeds: the BSTR it stores in newVariant.
ChangeTypeToBstr(v) ==
    IF ElemType(v.vt) = VT_BSTR THEN v.bstr ELSE Decimal(v.num)

\* What a conversion ends with: the strings, an exception, or the end of the
\* process (an access violation is no C++ exception).
\* `locks` counts the SafeArrayAccessData locks it leaves on the array.
Ok(strings) == [kind |-> "ok", strings |-> strings, exc |-> <<>>, locks |-> 0]
Throws(excs) == [kind |-> "throw", strings |-> <<>>, exc |-> excs, locks |-> 0]
Crash == [kind |-> "crash", strings |-> <<>>, exc |-> <<>>, locks |-> 0]

\* An exception thrown between SafeArrayAccessData and SafeArrayUnaccessData
ThrowsLocked(excs) ==
    [kind |-> "throw", strings |-> <<>>, exc |-> excs, locks |-> 1]

Garbage == <<"?">>

\* Reading elementCount BSTR pointers from the data of an array: the strings
\* of a BSTR array; undefined behaviour for the data of any other element
\* type (the reads leave the data and SysStringLen follows wild pointers).
ReadBstrElements(v, elementCount) ==
    IF ElemType(v.vt) = VT_BSTR
    THEN {Ok(SubSeq(v.elems, 1, elementCount))}
    ELSE {Crash, Ok(<<Garbage>>), ThrowsLocked(<<LengthError>>)}

\* Variant::getStrings(VARIANT *): the set of its possible outcomes, over the
\* HRESULTs of the OS calls it makes.
getStrings(v) ==
    IF HasFlag(v.vt, VT_ARRAY)
    THEN IF HasFlag(v.vt, VT_BSTR)
         THEN UNION {
            LET e1 == checkResult(h1, "Failed to access array.") IN
            IF e1 # <<>> THEN {Throws(e1)}
            ELSE UNION {
              LET e2 == checkResult(h2, "Failed to access array lower bound.") IN
              IF e2 # <<>> THEN {ThrowsLocked(e2)}
              ELSE UNION {
                LET e3 == checkResult(h3, "Failed to access array upperwer bound.") IN
                IF e3 # <<>> THEN {ThrowsLocked(e3)}
                ELSE LET lowerBound == v.lbound
                         upperBound == v.lbound + Len(v.elems) - 1
                         elementCount == upperBound - lowerBound + 1
                     IN  ReadBstrElements(v, elementCount)
                : h3 \in HResults }
              : h2 \in HResults }
            : h1 \in HResults }
         ELSE {Ok(<<>>)}
    ELSE IF ~(v.vt = VT_EMPTY \/ v.vt = VT_NULL)
         THEN { LET e == checkResult(h, "Failed to convert variant to BSTR.") IN
                IF e # <<>> THEN Throws(e) ELSE Ok(<<ChangeTypeToBstr(v)>>)
                : h \in HResults }
         ELSE {Ok(<<>>)}

\* A separator without the space
separator_Comma == <<",">>

\* static const std::wstring separator = L", ";
separator == <<",", " ">>

\* getString marking a value without strings
RECURSIVE Join_NoneMarked(_)
Join_NoneMarked(strings) ==
    IF strings = <<>> THEN <<"-">>
    ELSE IF Len(strings) = 1 THEN strings[1]
    ELSE strings[1] \o <<",", " ">> \o Join_NoneMarked(Tail(strings))

\* The loop of Variant::getString: the strings joined by the separator.
RECURSIVE Join(_)
Join(strings) ==
    IF strings = <<>> THEN <<>>
    ELSE IF Len(strings) = 1 THEN strings[1]
    ELSE strings[1] \o separator \o Join(Tail(strings))

\* Variant::getString(): the outcomes of getStrings with the strings joined
\* into the buffer.
getString(v) ==
    { IF o.kind = "ok" THEN [o EXCEPT !.strings = Join(o.strings)] ELSE o
      : o \in getStrings(v) }

---------------------------------------------------------------------------
(* State *)

VARIABLES
    pc,             \* where WmiEnum_new stands ("idle": not called)
    classRegex,     \* its arguments
    propertyRegex,
    output,         \* the WmiEnum: [error, instances]
    returned,       \* the pointer WmiEnum_new returned (NULL: has not returned)
    pending,        \* the exception in flight, if any
    items,          \* objects in the current page of classes
    itemIdx,        \* position of `item` in it
    className,      \* name of the class `item`
    instances,      \* objects in the current page of instances
    instIdx,        \* position of `instance` in it
    wmiInstance,    \* the record being filled for `instance`
    pair,           \* 1 when `pair` holds a property (name and Variant), else 0
    calls,          \* OS calls issued by this invocation, per kind
    failures,       \* the steps of this invocation that failed, in order
    fuel,           \* objects the OS may still hand out
    world,          \* what the OS has handed out to this invocation
    eod,            \* the level whose end of data the last OS answer signalled
    held,           \* OS resources acquired and not released, per kind
    page,           \* the last round trip of EnumWbemClasses::next, if the
                    \* last step was one
    released,       \* the objects the last scope exit destroyed, in order
    acc,            \* the last accessor call and what it returned
    conv,           \* a conversion of a VARIANT on its own: input and outcome
    chk,            \* a call of checkResult on its own: input and outcome
    driver          \* the class-listing loop of the earlier wWinMain

vars == <<pc, classRegex, propertyRegex, output, returned, pending, items,
          itemIdx, className, instances, instIdx, wmiInstance, pair, calls,
          failures, fuel, world, eod, held, page, released, acc, conv, chk,
          driver>>

\* What WmiEnum_new and the accessors never touch
probes == <<conv, chk, driver>>

locals == <<items, itemIdx, className, instances, instIdx, wmiInstance, pair>>

SetupCalls == {"CoInitializeEx", "CoCreateInstance", "CoInitializeSecurity",
               "ConnectServer", "CoSetProxyBlanket", "CreateClassEnum"}

EnumCalls == {"Next(classes)", "Get(__CLASS)", "CreateInstanceEnum",
              "Next(instances)", "BeginEnumeration", "Next(properties)"}

CallKinds == SetupCalls \cup EnumCalls

\* WmiInstance and WmiEnum as constructed
NewWmiInstance == [className |-> <<>>, properties |-> <<>>]
NewWmiEnum == [error |-> <<>>, instances |-> <<>>]

NoAccess == [fn |-> "none", instance |-> 0, property |-> 0, ret |-> 0]

NoOutcome == [kind |-> "none", strings |-> <<>>, exc |-> <<>>, locks |-> 0]
NoConversion ==
    [fn |-> "none", value |-> Variant(VT_EMPTY, <<>>, 0, <<>>, 0), out |-> NoOutcome]

\* No round trip of EnumWbemClasses::next in the last step
NoPage == [asked |-> 0, returned |-> 0, wrapped |-> <<>>]

NoCheck == [fn |-> "none", hres |-> S_OK, message |-> "", exc |-> <<>>]

NoDriver ==
    [pc |-> "off", left |-> 0, fetched |-> 0, items |-> <<>>, idx |-> 0,
     printed |-> <<>>, exhausted |-> FALSE]

\* Address of the WmiEnum allocated by new WmiEnum()
OutputPtr == <<"output">>

\* The kinds of OS resources: initializations of the COM library, references
\* to the locator, the services proxy, enumerators and class/instance
\* objects, VARIANTs with their contents, and locks on SAFEARRAY data.
ResourceKinds == {"com", "locator", "services", "enumerator", "object",
                  "variant", "arrayLock"}

NoneHeld == [k \in ResourceKinds |-> 0]

Init ==
    /\ pc = "idle"
    /\ classRegex = <<>>
    /\ propertyRegex = <<>>
    /\ output = NewWmiEnum
    /\ returned = NULL
    /\ pending = <<>>
    /\ items = 0
    /\ itemIdx = 0
    /\ className = <<>>
    /\ instances = 0
    /\ instIdx = 0
    /\ wmiInstance = NewWmiInstance
    /\ pair = 0
    /\ calls = [k \in CallKinds |-> 0]
    /\ failures = <<>>
    /\ fuel = MaxObjects
    /\ world = <<>>
    /\ eod = "none"
    /\ held = NoneHeld
    /\ page = NoPage
    /\ released = <<>>
    /\ acc = NoAccess
    /\ conv = NoConversion
    /\ chk = NoCheck
    /\ driver = NoDriver

ClearLocals ==
    /\ items' = 0
    /\ itemIdx' = 0
    /\ className' = <<>>
    /\ instances' = 0
    /\ instIdx' = 0
    /\ wmiInstance' = NewWmiInstance
    /\ pair' = 0

Issue(kind) == calls' = [calls EXCEPT ![kind] = @ + 1]

---------------------------------------------------------------------------
(* Ownership: the RAII wrappers and what their destructors release *)

\* The objects of WmiEnum_new that own OS resources, in the order of their
\* construction, that are alive when the step `step` runs.  `library` and
\* `locator` are the members of Services and `services` stands for its pSvc:
\* when the constructor of Services throws, the members constructed so far
\* are destroyed.
Scope_ServicesBody(step) ==
    CASE step \in {"CoSetProxyBlanket", "CreateClassEnum"} ->
             <<"library", "locator", "services">>
      [] step = "Next(classes)" ->
             <<"library", "locator", "services", "enumClasses">>
      [] step = "Get(__CLASS)" ->
             <<"library", "locator", "services", "enumClasses", "items">>
      [] step = "CreateInstanceEnum" ->
             <<"library", "locator", "services", "enumClasses", "items",
               "rawClassName">>
      [] step = "Next(instances)" ->
             <<"library", "locator", "services", "enumClasses", "items",
               "rawClassName", "enumInstances">>
      [] step = "BeginEnumeration" ->
             <<"library", "locator", "services", "enumClasses", "items",
               "rawClassName", "enumInstances", "instances">>
      [] step = "Next(properties)" ->
             <<"library", "locator", "services", "enumClasses", "items",
               "rawClassName", "enumInstances", "instances", "pair">>
      [] OTHER -> <<>>

Scope(step) ==
    CASE step = "CoCreateInstance" -> <<"library">>
      [] step \in {"CoInitializeSecurity", "ConnectServer"} ->
             <<"library", "locator">>
      [] step \in {"CoSetProxyBlanket", "CreateClassEnum"} ->
             <<"library", "locator", "services">>
      [] step = "Next(classes)" ->
             <<"library", "locator", "services", "enumClasses">>
      [] step = "Get(__CLASS)" ->
             <<"library", "locator", "services", "enumClasses", "items">>
      [] step = "CreateInstanceEnum" ->
             <<"library", "locator", "services", "enumClasses", "items",
               "rawClassName">>
      [] step = "Next(instances)" ->
             <<"library", "locator", "services", "enumClasses", "items",
               "rawClassName", "enumInstances">>
      [] step = "BeginEnumeration" ->
             <<"library", "locator", "services", "enumClasses", "items",
               "rawClassName", "enumInstances", "instances">>
      [] step = "Next(properties)" ->
             <<"library", "locator", "services", "enumClasses", "items",
               "rawClassName", "enumInstances", "instances", "pair">>
      [] OTHER -> <<>>

\* The kind of resource an object owns.
KindOf(object) ==
    CASE object = "library" -> "com"
      [] object = "locator" -> "locator"
      [] object = "services" -> "services"
      [] object \in {"enumClasses", "enumInstances"} -> "enumerator"
      [] object \in {"items", "instances"} -> "object"
      [] object \in {"rawClassName", "pair"} -> "variant"

\* How many resources an object owns: a page owns its objects, `pair` a
\* Variant when it holds a property, every other wrapper one resource.
Owns(object, nItems, nInstances, nPair) ==
    CASE object = "items" -> nItems
      [] object = "instances" -> nInstances
      [] object = "pair" -> nPair
      [] OTHER -> 1

Acquire(h, kind, n) == [h EXCEPT ![kind] = @ + n]

\* The destructors of `objects` run: each releases what the object owns
\* (~ComLibrary: CoUninitialize; the others: Release, VariantClear + delete).
RECURSIVE Destroy(_, _, _, _, _)
Destroy(h, objects, nItems, nInstances, nPair) ==
    IF objects = <<>> THEN h
    ELSE Destroy([h EXCEPT ![KindOf(Head(objects))] =
                      @ - Owns(Head(objects), nItems, nInstances, nPair)],
                 Tail(objects), nItems, nInstances, nPair)

Reverse(q) == [i \in 1..Len(q) |-> q[Len(q) + 1 - i]]

\* Destruction in the order of construction
Gone_Forward(from, to) ==
    LET stay == Scope(to) IN
    SelectSeq(Scope(from), LAMBDA o : \A i \in 1..Len(stay) : stay[i] # o)

\* Control goes from step `from` to step `to`: the objects alive at `from`
\* and not at `to` are destroyed, in the reverse order of their construction
\* (locals at the end of their block or in unwinding; for Services the body
\* of ~Services, which releases pSvc, then its members locator and library).
Gone(from, to) ==
    LET stay == Scope(to) IN
    Reverse(SelectSeq(Scope(from),
                      LAMBDA o : \A i \in 1..Len(stay) : stay[i] # o))

Leave(h, from, to, nItems, nInstances, nPair) ==
    Destroy(h, Gone(from, to), nItems, nInstances, nPair)

\* Of those objects, the ones that own something and so release it.
Destroyed(from, to, nItems, nInstances, nPair) ==
    SelectSeq(Gone(from, to),
              LAMBDA o : Owns(o, nItems, nInstances, nPair) > 0)

\* A step that leaves scopes, and a step that leaves none.
Release(h, from, to, nItems, nInstances, nPair) ==
    /\ held' = Leave(h, from, to, nItems, nInstances, nPair)
    /\ released' = Destroyed(from, to, nItems, nInstances, nPair)

Keep(h) ==
    /\ held' = h
    /\ released' = <<>>

\* The resource a successful OS call hands to its caller.
AcquiredBy(step) ==
    CASE step = "CoInitializeEx" -> <<"com">>
      [] step = "CoCreateInstance" -> <<"locator">>
      [] step = "ConnectServer" -> <<"services">>
      [] step \in {"CreateClassEnum", "CreateInstanceEnum"} -> <<"enumerator">>
      [] OTHER -> <<>>

---------------------------------------------------------------------------
(* What the OS hands out: the classes read so far, each with the instance   *)
(* objects its enumeration returned, each with the properties returned.     *)

WorldClass(name) == [name |-> name, instances |-> <<>>]

\* n more instance objects of the class being enumerated
WithInstances(w, n) ==
    [w EXCEPT ![Len(w)].instances = @ \o [i \in 1..n |-> <<>>]]

\* Position, among the instances of the class being enumerated, of the
\* object at index idx of the current page of nPage objects.
CurrentInstance(w, nPage, idx) == Len(w[Len(w)].instances) - nPage + idx + 1

\* One more property of the instance being enumerated
WithProperty(w, k, name, value) ==
    [w EXCEPT ![Len(w)].instances[k] = Append(@, <<name, value>>)]

---------------------------------------------------------------------------
(* Exceptions *)

\* The standard exception hierarchy, as far as the thrown types reach.
BaseOf(type) ==
    CASE type = "std::regex_error" -> "std::runtime_error"
      [] type = "std::runtime_error" -> "std::exception"
      [] type = "std::bad_optional_access" -> "std::exception"
      [] type = "std::length_error" -> "std::logic_error"
      [] type = "std::logic_error" -> "std::exception"
      [] OTHER -> ""

RECURSIVE IsA(_, _)
IsA(type, base) ==
    IF type = "" THEN FALSE
    ELSE type = base \/ IsA(BaseOf(type), base)

\* catch (const std::exception &e)
CaughtType == "std::exception"

\* The OS's own reading of an HRESULT: negative values are errors.
IsErrorCode(hres) == hres < 0

Failure(step, what) == [step |-> step, what |-> what]

\* The first failure is caught inside the loop over the classes, which goes on
Throw_InnerCatch(excs) ==
    /\ pending' = IF pc \in EnumCalls THEN pending ELSE excs
    /\ pc' = IF pc \in EnumCalls THEN "Next(classes)" ELSE "catch"
    /\ ClearLocals

\* A throw inside the try block: the stack is unwound (every local of the
\* walk is destroyed) and control goes to the handlers of WmiEnum_new.
Throw(excs) ==
    /\ pending' = excs
    /\ pc' = "catch"
    /\ ClearLocals

\* return output;
Return ==
    /\ pc' = "done"
    /\ returned' = OutputPtr

---------------------------------------------------------------------------
(* WmiEnum_new *)

\* WmiEnum_new with Services set up before the regexes are constructed
StepOrder_RegexLate ==
    <<"CoInitializeEx", "CoCreateInstance", "CoInitializeSecurity",
      "ConnectServer", "CoSetProxyBlanket", "CreateClassEnum", "regex",
      "Next(classes)">>

\* The straight-line part of WmiEnum_new, in execution order: the two
\* regexes, the members and the body of Services::Services, setProxyBlanket,
\* classEnum, and then the loop over the pages of classes.
StepOrder ==
    <<"regex", "CoInitializeEx", "CoCreateInstance", "CoInitializeSecurity",
      "ConnectServer", "CoSetProxyBlanket", "CreateClassEnum", "Next(classes)">>

FirstStep == StepOrder[1]

After(step) ==
    StepOrder[(CHOOSE i \in 1..(Len(StepOrder) - 1) : StepOrder[i] = step) + 1]

\* The call: new WmiEnum() and entry into the try block.
WmiEnum_new(c, p) ==
    /\ pc = "idle"
    /\ classRegex' = c
    /\ propertyRegex' = p
    /\ output' = NewWmiEnum
    /\ pc' = FirstStep
    /\ UNCHANGED <<returned, pending, locals, calls, failures, fuel, world,
                   eod, held, page, released, acc, probes>>

\* WmiEnum_new constructing only cRegex at this point
ConstructRegex_ClassOnly ==
    /\ pc = "regex"
    /\ failures' = IF RegexValid(classRegex) /\ RegexValid(propertyRegex)
                   THEN failures
                   ELSE Append(failures, Failure("regex", RegexError.what))
    /\ IF RegexValid(classRegex)
       THEN pc' = After("regex") /\ UNCHANGED <<pending, locals>>
       ELSE Throw(<<RegexError>>)
    /\ eod' = "none"
    /\ UNCHANGED <<probes, classRegex, propertyRegex, output, returned, calls,
                   fuel, world, held, page, released, acc>>

\* const std::wregex cRegex(classRegex), pRegex(propertyRegex);
ConstructRegex ==
    /\ pc = "regex"
    /\ failures' = IF RegexValid(classRegex) /\ RegexValid(propertyRegex)
                   THEN failures
                   ELSE Append(failures, Failure("regex", RegexError.what))
    /\ IF RegexValid(classRegex) /\ RegexValid(propertyRegex)
       THEN pc' = After("regex") /\ UNCHANGED <<pending, locals>>
       ELSE Throw(<<RegexError>>)
    /\ eod' = "none"
    /\ UNCHANGED <<probes, classRegex, propertyRegex, output, returned, calls,
                   fuel, world, held, page, released, acc>>

\* One call into the OS whose HRESULT goes through checkResult.  When the
\* call succeeds the OS hands out the resource the call is for; when
\* checkResult throws, the objects alive at this step are destroyed.
Checked(step, message, next) ==
    /\ pc = step
    /\ Issue(step)
    /\ \E hres \in HResults :
         LET e == checkResult(hres, message)
             got == IF IsErrorCode(hres) \/ AcquiredBy(step) = <<>>
                    THEN held
                    ELSE Acquire(held, AcquiredBy(step)[1], 1)
         IN
         /\ failures' = IF IsErrorCode(hres)
                        THEN Append(failures, Failure(step, ErrorText(message, hres)))
                        ELSE failures
         /\ IF e # <<>>
            THEN /\ Throw(e)
                 /\ Release(got, step, "catch", items, instances, pair)
            ELSE /\ pc' = next
                 /\ Keep(got)
                 /\ UNCHANGED <<pending, locals>>
    /\ eod' = "none"
    /\ page' = NoPage
    /\ UNCHANGED <<probes, classRegex, propertyRegex, output, returned, fuel,
                   world, acc>>

\* ComLibrary::ComLibrary (member `library` of Services)
CoInitializeEx ==
    Checked("CoInitializeEx", "Failed to initialize COM library.",
            After("CoInitializeEx"))

\* Locator::Locator (member `locator` of Services)
CoCreateInstance ==
    Checked("CoCreateInstance", "Failed to create IWbemLocator object.",
            After("CoCreateInstance"))

\* comSecurity()
CoInitializeSecurity ==
    Checked("CoInitializeSecurity", "Failed to initialize COM security.",
            After("CoInitializeSecurity"))

\* Services::Services: locator.pLoc->ConnectServer
ConnectServer ==
    Checked("ConnectServer", "Could not connect. Error code = 0x",
            After("ConnectServer"))

\* Services::setProxyBlanket
CoSetProxyBlanket ==
    Checked("CoSetProxyBlanket", "Could not set proxy blanket.",
            After("CoSetProxyBlanket"))

\* EnumWbemClasses::classEnum
CreateClassEnum ==
    Checked("CreateClassEnum", "Could not Create class enum.",
            After("CreateClassEnum"))

\* The item loop goes on with the class after an empty instance page, or
\* ends the walk of the page of classes, whatever is left in it
AdvanceItem_SkipsPage ==
    /\ itemIdx' = 0
    /\ items' = 0
    /\ pc' = "Next(classes)"
    /\ className' = <<>>
    /\ instances' = 0
    /\ instIdx' = 0
    /\ wmiInstance' = NewWmiInstance
    /\ pair' = 0

\* The item loop stepping over the object after the current one
AdvanceItem_SkipsOne ==
    /\ IF itemIdx + 2 < items
       THEN /\ itemIdx' = itemIdx + 2
            /\ items' = items
            /\ pc' = "Get(__CLASS)"
       ELSE /\ itemIdx' = 0
            /\ items' = 0
            /\ pc' = "Next(classes)"
    /\ className' = <<>>
    /\ instances' = 0
    /\ instIdx' = 0
    /\ wmiInstance' = NewWmiInstance
    /\ pair' = 0

\* The item loop moves on: the next object of the page, or the next page.
AdvanceItem ==
    /\ IF itemIdx + 1 < items
       THEN /\ itemIdx' = itemIdx + 1
            /\ items' = items
            /\ pc' = "Get(__CLASS)"
       ELSE /\ itemIdx' = 0
            /\ items' = 0
            /\ pc' = "Next(classes)"
    /\ className' = <<>>
    /\ instances' = 0
    /\ instIdx' = 0
    /\ wmiInstance' = NewWmiInstance
    /\ pair' = 0

\* The instance loop leaving the page after its first object
AdvanceInstance_SkipsPage ==
    /\ instIdx' = 0
    /\ instances' = 0
    /\ pc' = "Next(instances)"
    /\ wmiInstance' = NewWmiInstance
    /\ pair' = 0
    /\ UNCHANGED <<items, itemIdx, className>>

\* The instance loop moves on: the next object of the page, or the next page.
AdvanceInstance ==
    /\ IF instIdx + 1 < instances
       THEN /\ instIdx' = instIdx + 1
            /\ instances' = instances
            /\ pc' = "BeginEnumeration"
       ELSE /\ instIdx' = 0
            /\ instances' = 0
            /\ pc' = "Next(instances)"
    /\ wmiInstance' = NewWmiInstance
    /\ pair' = 0
    /\ UNCHANGED <<items, itemIdx, className>>

\* A slot of apObj the OS has not written, and what lies past apObj
Unset == 0
PastBuffer == -1

\* IWbemClassObject* apObj[128] after the OS has handed out n objects: the
\* first n slots hold them (numbered in page order), the others nothing.
Filled(n) == [i \in 1..ChunkSize |-> IF i <= n THEN i ELSE Unset]

\* The loop that reads one slot more than `returned`
WrapObjects_Inclusive(apObj, ret) ==
    [k \in 1..(ret + 1) |-> IF k <= ChunkSize THEN apObj[k] ELSE PastBuffer]

\* for (ULONG n = 0; n < returned; n++) output.emplace_back(apObj[n]);
WrapObjects(apObj, ret) ==
    [k \in 1..ret |-> IF k <= ChunkSize THEN apObj[k] ELSE PastBuffer]

\* The round trip of EnumWbemClasses::next: the count asked for, the answer,
\* and the objects wrapped (none when checkResult throws or returned is 0).
RoundTrip(hres, n) ==
    [asked |-> ChunkSize, returned |-> n,
     wrapped |-> IF checkResult(hres, "Could not Enum classes.") # <<>> \/ ~(n > 0)
                 THEN <<>>
                 ELSE WrapObjects(Filled(n), n)]

\* EnumWbemClasses::next: what the OS may answer to Next(WBEM_INFINITE, 128,
\* apObj, &returned): an HRESULT and the number of objects, at most the
\* number asked for.
PageAnswers ==
    {<<hres, n>> \in HResults \X (0..Min(ChunkSize, fuel)) :
        IsErrorCode(hres) => n = 0}

\* items = enumClasses.next().  A page stays with `items` until the loop is
\* through with it; the end of the classes is the end of the try block,
\* where enumClasses and services are destroyed.
ClassesNext ==
    /\ pc = "Next(classes)"
    /\ Issue("Next(classes)")
    /\ \E a \in PageAnswers :
         LET hres == a[1]
             n == a[2]
             e == checkResult(hres, "Could not Enum classes.")
             got == Acquire(held, "object", n)
         IN
         /\ failures' = IF IsErrorCode(hres)
                        THEN Append(failures,
                               Failure("Next(classes)",
                                       ErrorText("Could not Enum classes.", hres)))
                        ELSE failures
         /\ eod' = IF ~IsErrorCode(hres) /\ n = 0 THEN "classes" ELSE "none"
         /\ page' = RoundTrip(hres, n)
         /\ IF e # <<>>
            THEN /\ Throw(e)
                 /\ Release(got, "Next(classes)", "catch", items, instances, pair)
                 /\ UNCHANGED <<returned, fuel>>
            ELSE IF n > 0
            THEN /\ items' = Len(RoundTrip(hres, n).wrapped)
                 /\ itemIdx' = 0
                 /\ fuel' = fuel - n
                 /\ pc' = "Get(__CLASS)"
                 /\ Keep(got)
                 /\ UNCHANGED <<returned, pending, className, instances,
                                instIdx, wmiInstance, pair>>
            ELSE /\ Return
                 /\ ClearLocals
                 /\ Release(got, "Next(classes)", "done", items, instances, pair)
                 /\ UNCHANGED <<pending, fuel>>
    /\ UNCHANGED <<probes, classRegex, propertyRegex, output, world, acc>>

\* auto rawClassName = item.get(L"__CLASS").value(); ... regex_match.
\* WbemClass::get allocates a VARIANT and destroys it when it returns
\* nullopt; otherwise rawClassName owns it to the end of this class.
GetClassName ==
    /\ pc = "Get(__CLASS)"
    /\ Issue("Get(__CLASS)")
    /\ \E hres \in HResults :
         /\ failures' = IF IsErrorCode(hres)
                        THEN Append(failures,
                               Failure("Get(__CLASS)", BadOptionalAccess.what))
                        ELSE failures
         /\ IF SUCCEEDED(hres)
            THEN \E name \in ClassNames :
                   /\ pending' = pending
                   /\ world' = Append(world, WorldClass(name))
                   /\ IF regex_match(name, classRegex)
                      THEN /\ className' = name
                           /\ pc' = "CreateInstanceEnum"
                           /\ Keep(Acquire(held, "variant", 1))
                           /\ UNCHANGED <<items, itemIdx, instances, instIdx,
                                          wmiInstance, pair>>
                      ELSE /\ AdvanceItem
                           /\ Release(Acquire(held, "variant", 1),
                                            "CreateInstanceEnum", pc',
                                            items, instances, pair)
            ELSE /\ Throw(<<BadOptionalAccess>>)
                 /\ world' = world
                 /\ Release(held, "Get(__CLASS)", "catch",
                                  items, instances, pair)
    /\ eod' = "none"
    /\ page' = NoPage
    /\ UNCHANGED <<probes, classRegex, propertyRegex, output, returned, fuel, acc>>

\* EnumWbemClasses::instanceEnum(services, bClassName)
CreateInstanceEnum ==
    Checked("CreateInstanceEnum", "Could not create instance enum.",
            "Next(instances)")

\* instances = enumInstances.next().  The end of the instances is the end of
\* the loop body for this class: enumInstances and rawClassName are destroyed.
InstancesNext ==
    /\ pc = "Next(instances)"
    /\ Issue("Next(instances)")
    /\ \E a \in PageAnswers :
         LET hres == a[1]
             n == a[2]
             e == checkResult(hres, "Could not Enum classes.")
             got == Acquire(held, "object", n)
         IN
         /\ failures' = IF IsErrorCode(hres)
                        THEN Append(failures,
                               Failure("Next(instances)",
                                       ErrorText("Could not Enum classes.", hres)))
                        ELSE failures
         /\ eod' = IF ~IsErrorCode(hres) /\ n = 0 THEN "instances" ELSE "none"
         /\ world' = IF n > 0 THEN WithInstances(world, n) ELSE world
         /\ page' = RoundTrip(hres, n)
         /\ IF e # <<>>
            THEN /\ Throw(e)
                 /\ Release(got, "Next(instances)", "catch",
                                  items, instances, pair)
                 /\ UNCHANGED fuel
            ELSE IF n > 0
            THEN /\ instances' = Len(RoundTrip(hres, n).wrapped)
                 /\ instIdx' = 0
                 /\ fuel' = fuel - n
                 /\ pc' = "BeginEnumeration"
                 /\ Keep(got)
                 /\ UNCHANGED <<pending, items, itemIdx, className,
                                wmiInstance, pair>>
            ELSE /\ AdvanceItem
                 /\ Release(got, "Next(instances)", pc',
                                  items, instances, pair)
                 /\ UNCHANGED <<pending, fuel>>
    /\ UNCHANGED <<probes, classRegex, propertyRegex, output, returned, acc>>

\* The record put into the result before its properties are enumerated
BeginEnumeration_EmplaceFirst ==
    /\ pc = "BeginEnumeration"
    /\ Issue("BeginEnumeration")
    /\ output' = [output EXCEPT !.instances =
                     Append(@, [className |-> className, properties |-> <<>>])]
    /\ \E hres \in HResults :
         LET message == "Failed to begin the enumeration."
             e == checkResult(hres, message)
         IN
         /\ failures' = IF IsErrorCode(hres)
                        THEN Append(failures,
                               Failure("BeginEnumeration", ErrorText(message, hres)))
                        ELSE failures
         /\ IF e # <<>>
            THEN /\ Throw(e)
                 /\ Release(held, "BeginEnumeration", "catch",
                            items, instances, pair)
            ELSE /\ wmiInstance' = [className |-> className, properties |-> <<>>]
                 /\ pc' = "Next(properties)"
                 /\ Keep(held)
                 /\ UNCHANGED <<pending, items, itemIdx, className, instances,
                                instIdx, pair>>
    /\ eod' = "none"
    /\ page' = NoPage
    /\ UNCHANGED <<probes, classRegex, propertyRegex, returned, fuel,
                   world, acc>>

\* WmiInstance wmiInstance; wmiInstance.className.assign(className);
\* instance.beginEnumeration();
BeginEnumeration ==
    /\ pc = "BeginEnumeration"
    /\ Issue("BeginEnumeration")
    /\ \E hres \in HResults :
         LET message == "Failed to begin the enumeration."
             e == checkResult(hres, message)
         IN
         /\ failures' = IF IsErrorCode(hres)
                        THEN Append(failures,
                               Failure("BeginEnumeration", ErrorText(message, hres)))
                        ELSE failures
         /\ IF e # <<>>
            THEN /\ Throw(e)
                 /\ Release(held, "BeginEnumeration", "catch",
                                  items, instances, pair)
            ELSE /\ wmiInstance' = [className |-> className, properties |-> <<>>]
                 /\ pc' = "Next(properties)"
                 /\ Keep(held)
                 /\ UNCHANGED <<pending, items, itemIdx, className, instances,
                                instIdx, pair>>
    /\ eod' = "none"
    /\ page' = NoPage
    /\ UNCHANGED <<probes, classRegex, propertyRegex, output, returned, fuel,
                   world, acc>>

\* pair = instance.next(): what IWbemClassObject::Next may answer.
PropertyAnswers ==
    {<<WBEM_S_NO_MORE_DATA, <<>>, Variant(VT_EMPTY, <<>>, 0, <<>>, 0)>>}
    \cup {<<hres, <<>>, Variant(VT_EMPTY, <<>>, 0, <<>>, 0)>> :
            hres \in {h \in HResults : IsErrorCode(h)}}
    \cup {<<hres, name, value>> \in
            {h \in HResults : ~IsErrorCode(h)} \X PropertyNames \X WalkVariants :
            fuel > 0}

\* One round of the property loop: instance.next(), the match of the name,
\* the conversion of the value and the emplace_back; at the end of the
\* properties, output->instances.emplace_back(std::move(wmiInstance)).
\* WbemClass::next destroys its Variant when it returns nullopt or throws and
\* frees the name (_bstr_t) in every case; the Variant of a returned property
\* goes to `pair`, whose former Variant is then destroyed.
PropertiesNext ==
    /\ pc = "Next(properties)"
    /\ Issue("Next(properties)")
    /\ \E a \in PropertyAnswers :
         LET hres == a[1]
             name == a[2]
             value == a[3]
             message == "Failed to get next value."
             e == IF hres = WBEM_S_NO_MORE_DATA THEN <<>>
                  ELSE checkResult(hres, message)
             got == Acquire(held, "variant", 1 - pair)
         IN
         IF hres = WBEM_S_NO_MORE_DATA
         THEN /\ output' = [output EXCEPT !.instances = Append(@, wmiInstance)]
              /\ AdvanceInstance
              /\ Release(held, "Next(properties)", pc',
                               items, instances, pair)
              /\ eod' = "properties"
              /\ UNCHANGED <<pending, failures, fuel, world>>
         ELSE IF e # <<>>
         THEN /\ failures' = Append(failures,
                               Failure("Next(properties)", ErrorText(message, hres)))
              /\ Throw(e)
              /\ Release(held, "Next(properties)", "catch",
                               items, instances, pair)
              /\ eod' = "none"
              /\ UNCHANGED <<output, fuel, world>>
         ELSE IF IsErrorCode(hres)
         THEN /\ failures' = Append(failures,
                               Failure("Next(properties)", ErrorText(message, hres)))
              /\ eod' = "none"
              /\ UNCHANGED <<output, fuel, pending, pc, locals, world, held, released>>
         ELSE /\ fuel' = fuel - 1
              /\ output' = output
              /\ eod' = "none"
              /\ world' = WithProperty(world,
                                       CurrentInstance(world, instances, instIdx),
                                       name, value)
              /\ IF regex_match(name, propertyRegex)
                 THEN \E o \in getString(value) :
                        CASE o.kind = "ok" ->
                               /\ wmiInstance' =
                                    [wmiInstance EXCEPT
                                       !.properties = Append(@, <<name, o.strings>>)]
                               /\ failures' = failures
                               /\ pair' = 1
                               /\ Keep(Acquire(got, "arrayLock", o.locks))
                               /\ UNCHANGED <<pc, pending, items, itemIdx,
                                              className, instances, instIdx>>
                          [] o.kind = "throw" ->
                               /\ failures' = Append(failures,
                                                Failure("getString", o.exc[1].what))
                               /\ Throw(o.exc)
                               /\ Release(Acquire(got, "arrayLock", o.locks),
                                                "Next(properties)", "catch",
                                                items, instances, 1)
                          [] o.kind = "crash" ->
                               /\ pc' = "crashed"
                               /\ pair' = 1
                               /\ Keep(got)
                               /\ UNCHANGED <<pending, failures, items, itemIdx,
                                              className, instances, instIdx,
                                              wmiInstance>>
                 ELSE /\ pair' = 1
                      /\ Keep(got)
                      /\ UNCHANGED <<pc, pending, failures, items, itemIdx,
                                     className, instances, instIdx, wmiInstance>>
    /\ page' = NoPage
    /\ UNCHANGED <<probes, classRegex, propertyRegex, returned, acc>>

\* The handler of the earlier revision (wmienumall.cxx:1369-1373), which
\* also drops the records: output->instances.clear();
Catch_Clearing ==
    /\ pc = "catch"
    /\ IF IsA(pending[1].type, "std::exception")
       THEN /\ output' = [error |-> <<pending[1].what>>, instances |-> <<>>]
            /\ Return
       ELSE /\ pc' = "propagated"
            /\ UNCHANGED <<output, returned>>
    /\ pending' = <<>>
    /\ eod' = "none"
    /\ UNCHANGED <<probes, classRegex, propertyRegex, locals, calls, failures,
                   fuel, world, held, page, released, acc>>

\* catch (const std::exception &e) { output->error = e.what(); } return output;
\* An exception of any other type leaves WmiEnum_new.
Catch ==
    /\ pc = "catch"
    /\ IF IsA(pending[1].type, CaughtType)
       THEN /\ output' = [output EXCEPT !.error = <<pending[1].what>>]
            /\ Return
       ELSE /\ pc' = "propagated"
            /\ UNCHANGED <<output, returned>>
    /\ pending' = <<>>
    /\ eod' = "none"
    /\ UNCHANGED <<probes, classRegex, propertyRegex, locals, calls, failures,
                   fuel, world, held, page, released, acc>>

\* WmiEnum_free: delete wmiEnum; the process is as before the call (what the
\* model counts, it counts per call).
WmiEnum_free ==
    /\ pc = "done"
    /\ pc' = "idle"
    /\ classRegex' = <<>>
    /\ propertyRegex' = <<>>
    /\ output' = NewWmiEnum
    /\ returned' = NULL
    /\ calls' = [k \in CallKinds |-> 0]
    /\ failures' = <<>>
    /\ fuel' = MaxObjects
    /\ world' = <<>>
    /\ eod' = "none"
    /\ held' = NoneHeld
    /\ page' = NoPage
    /\ released' = <<>>
    /\ acc' = NoAccess
    /\ UNCHANGED <<pending, locals, probes>>

---------------------------------------------------------------------------
(* The accessors *)

\* What a read past the end of a std::vector yields: anything.
OutOfBounds == <<"<out of bounds>">>

\* v[i] of a std::vector (operator[] checks nothing)
At(v, i, past) == IF i < Len(v) THEN v[i + 1] ELSE past

PastInstance == [className |-> OutOfBounds, properties |-> <<>>]
PastProperty == <<OutOfBounds, OutOfBounds>>

\* Accessors with the slips an index check invites
WmiEnum_instanceClassName_OffByOne(wmiEnum, instance) ==
    IF instance <= Len(wmiEnum.instances)
    THEN <<At(wmiEnum.instances, instance, PastInstance).className>>
    ELSE NULL

WmiEnum_instancePropertyKey_Unchecked(wmiEnum, instance, property) ==
    IF instance < Len(wmiEnum.instances)
    THEN LET i == At(wmiEnum.instances, instance, PastInstance) IN
         <<At(i.properties, property, PastProperty)[1]>>
    ELSE NULL

WmiEnum_instancePropertyValue_Key(wmiEnum, instance, property) ==
    IF instance < Len(wmiEnum.instances)
    THEN LET i == At(wmiEnum.instances, instance, PastInstance) IN
         IF property < Len(i.properties)
         THEN <<At(i.properties, property, PastProperty)[1]>>
         ELSE NULL
    ELSE NULL

WmiEnum_error(wmiEnum) ==
    IF wmiEnum.error # <<>> THEN <<wmiEnum.error[1]>> ELSE NULL

WmiEnum_instanceCount(wmiEnum) == Len(wmiEnum.instances)

WmiEnum_instanceClassName(wmiEnum, instance) ==
    IF instance < Len(wmiEnum.instances)
    THEN <<At(wmiEnum.instances, instance, PastInstance).className>>
    ELSE NULL

WmiEnum_instancePropertyCount(wmiEnum, instance) ==
    IF instance < Len(wmiEnum.instances)
    THEN Len(At(wmiEnum.instances, instance, PastInstance).properties)
    ELSE 0

WmiEnum_instancePropertyKey(wmiEnum, instance, property) ==
    IF instance < Len(wmiEnum.instances)
    THEN LET i == At(wmiEnum.instances, instance, PastInstance) IN
         IF property < Len(i.properties)
         THEN <<At(i.properties, property, PastProperty)[1]>>
         ELSE NULL
    ELSE NULL

WmiEnum_instancePropertyValue(wmiEnum, instance, property) ==
    IF instance < Len(wmiEnum.instances)
    THEN LET i == At(wmiEnum.instances, instance, PastInstance) IN
         IF property < Len(i.properties)
         THEN <<At(i.properties, property, PastProperty)[2]>>
         ELSE NULL
    ELSE NULL

Indices == 0..MaxIndex

\* A call of an accessor by the holder of the handle: acc keeps the call and
\* its return value until the caller is done with it (Forget).
Called(fn, instance, property, ret) ==
    /\ pc = "done"
    /\ acc = NoAccess
    /\ acc' = [fn |-> fn, instance |-> instance, property |-> property, ret |-> ret]
    /\ UNCHANGED <<pc, classRegex, propertyRegex, output, returned, pending,
                   locals, calls, failures, fuel, world, eod, held, page,
                   released, probes>>

CallError == Called("WmiEnum_error", 0, 0, WmiEnum_error(output))

CallInstanceCount ==
    Called("WmiEnum_instanceCount", 0, 0, WmiEnum_instanceCount(output))

CallInstanceClassName ==
    \E i \in Indices :
        Called("WmiEnum_instanceClassName", i, 0,
               WmiEnum_instanceClassName(output, i))

CallInstancePropertyCount ==
    \E i \in Indices :
        Called("WmiEnum_instancePropertyCount", i, 0,
               WmiEnum_instancePropertyCount(output, i))

CallInstancePropertyKey ==
    \E i \in Indices, p \in Indices :
        Called("WmiEnum_instancePropertyKey", i, p,
               WmiEnum_instancePropertyKey(output, i, p))

CallInstancePropertyValue ==
    \E i \in Indices, p \in Indices :
        Called("WmiEnum_instancePropertyValue", i, p,
               WmiEnum_instancePropertyValue(output, i, p))

Forget ==
    /\ pc = "done"
    /\ acc # NoAccess
    /\ acc' = NoAccess
    /\ UNCHANGED <<pc, classRegex, propertyRegex, output, returned, pending,
                   locals, calls, failures, fuel, world, eod, held, page,
                   released, probes>>

---------------------------------------------------------------------------
(* Specification *)

Call == \E c \in ClassPatterns, p \in Patterns : WmiEnum_new(c, p)

Next ==
    \/ Call
    \/ ConstructRegex
    \/ CoInitializeEx
    \/ CoCreateInstance
    \/ CoInitializeSecurity
    \/ ConnectServer
    \/ CoSetProxyBlanket
    \/ CreateClassEnum
    \/ ClassesNext
    \/ GetClassName
    \/ CreateInstanceEnum
    \/ InstancesNext
    \/ BeginEnumeration
    \/ PropertiesNext
    \/ Catch
    \/ WmiEnum_free
    \/ CallError
    \/ CallInstanceCount
    \/ CallInstanceClassName
    \/ CallInstancePropertyCount
    \/ CallInstancePropertyKey
    \/ CallInstancePropertyValue
    \/ Forget

Spec == Init /\ [][Next]_vars

\* The steps of WmiEnum_new, from its first statement to its return.
Step ==
    \/ ConstructRegex
    \/ CoInitializeEx
    \/ CoCreateInstance
    \/ CoInitializeSecurity
    \/ ConnectServer
    \/ CoSetProxyBlanket
    \/ CreateClassEnum
    \/ ClassesNext
    \/ GetClassName
    \/ CreateInstanceEnum
    \/ InstancesNext
    \/ BeginEnumeration
    \/ PropertiesNext
    \/ Catch

NextCalls ==
    \/ Call
    \/ Step
    \/ WmiEnum_free

\* A call of WmiEnum_new is under way
Running == pc \notin {"idle", "done", "crashed", "propagated"}

\* A call that is under way takes its next step: WmiEnum_new runs on the
\* thread of its caller, and every OS call it makes answers.  This is weak
\* fairness of Step, WF_vars(Step), with ENABLED <<Step>>_vars written as
\* Running (StepEnabledWhenRunning).
Progress == []<>(~Running) \/ []<><<Step>>_vars

\* A step of WmiEnum_new can be taken exactly while a call is under way.
StepEnabledWhenRunning == Running <=> ENABLED <<Step>>_vars

\* Calls of WmiEnum_new that run on.  The enumerations of the OS are finite
\* (fuel).
SpecTermination == Init /\ [][NextCalls]_vars /\ Progress

---------------------------------------------------------------------------
(* Variant::getStrings and Variant::getString on their own *)

walkVars == <<pc, classRegex, propertyRegex, output, returned, pending, items,
              itemIdx, className, instances, instIdx, wmiInstance, pair, calls,
              failures, fuel, world, eod, held, page, released, acc>>

\* Variant v(variant); v.getStrings();
CallGetStrings ==
    /\ conv.fn = "none"
    /\ \E o \in getStrings(conv.value) :
         conv' = [conv EXCEPT !.fn = "getStrings", !.out = o]
    /\ UNCHANGED <<walkVars, chk, driver>>

\* Variant v(variant); v.getString();
CallGetString ==
    /\ conv.fn = "none"
    /\ \E o \in getString(conv.value) :
         conv' = [conv EXCEPT !.fn = "getString", !.out = o]
    /\ UNCHANGED <<walkVars, chk, driver>>

InitConversion ==
    /\ pc = "idle"
    /\ classRegex = <<>>
    /\ propertyRegex = <<>>
    /\ output = NewWmiEnum
    /\ returned = NULL
    /\ pending = <<>>
    /\ items = 0
    /\ itemIdx = 0
    /\ className = <<>>
    /\ instances = 0
    /\ instIdx = 0
    /\ wmiInstance = NewWmiInstance
    /\ pair = 0
    /\ calls = [k \in CallKinds |-> 0]
    /\ failures = <<>>
    /\ fuel = MaxObjects
    /\ world = <<>>
    /\ eod = "none"
    /\ held = NoneHeld
    /\ page = NoPage
    /\ released = <<>>
    /\ acc = NoAccess
    /\ chk = NoCheck
    /\ driver = NoDriver
    /\ conv \in {[fn |-> "none", value |-> v, out |-> NoOutcome] : v \in ProbeVariants}

NextConversion ==
    \/ CallGetStrings
    \/ CallGetString

SpecConversion == InitConversion /\ [][NextConversion]_vars

---------------------------------------------------------------------------
(* checkResult on its own *)

\* The descriptions checkResult is called with
Messages ==
    {"Failed to initialize COM library.",
     "Failed to initialize COM security.",
     "Failed to create IWbemLocator object.",
     "Could not connect. Error code = 0x",
     "Could not set proxy blanket.",
     "Failed to access array.",
     "Failed to access array lower bound.",
     "Failed to access array upperwer bound.",
     "Failed to convert variant to BSTR.",
     "Failed to begin the enumeration.",
     "Failed to get next value.",
     "Could not Create class enum.",
     "Could not create instance enum.",
     "Could not Enum classes."}

\* HRESULTs over the whole signed 32-bit range: successes (0, 1, 0x40004,
\* 0x40005, 0x7fffffff) and errors (0x80000000, 0x80004005, 0x80041001,
\* 0x80070005, 0xffffffff).
ProbeHResults ==
    {S_OK, S_FALSE, 262148, WBEM_S_NO_MORE_DATA, 2147483647,
     -2147483647 - 1, E_FAIL, -2147217407, -2147024891, -1}

\* checkResult(hres, message);
CallCheckResult ==
    /\ chk.fn = "none"
    /\ chk' = [chk EXCEPT !.fn = "checkResult",
                          !.exc = checkResult(chk.hres, chk.message)]
    /\ UNCHANGED <<walkVars, conv, driver>>

\* The caller is done with the outcome.
ForgetCheck ==
    /\ chk.fn # "none"
    /\ chk' = [chk EXCEPT !.fn = "none", !.exc = <<>>]
    /\ UNCHANGED <<walkVars, conv, driver>>

InitCheckResult ==
    /\ pc = "idle"
    /\ classRegex = <<>>
    /\ propertyRegex = <<>>
    /\ output = NewWmiEnum
    /\ returned = NULL
    /\ pending = <<>>
    /\ items = 0
    /\ itemIdx = 0
    /\ className = <<>>
    /\ instances = 0
    /\ instIdx = 0
    /\ wmiInstance = NewWmiInstance
    /\ pair = 0
    /\ calls = [k \in CallKinds |-> 0]
    /\ failures = <<>>
    /\ fuel = MaxObjects
    /\ world = <<>>
    /\ eod = "none"
    /\ held = NoneHeld
    /\ page = NoPage
    /\ released = <<>>
    /\ acc = NoAccess
    /\ conv = NoConversion
    /\ driver = NoDriver
    /\ chk \in {[fn |-> "none", hres |-> h, message |-> m, exc |-> <<>>] :
                   h \in ProbeHResults, m \in Messages}

NextCheckResult ==
    \/ CallCheckResult
    \/ ForgetCheck

SpecCheckResult == InitCheckResult /\ [][NextCheckResult]_vars

---------------------------------------------------------------------------
(* The class-listing loop of the earlier wWinMain *)

\* How often the listing counts one name on the console before the count
\* stays where it is
MaxPrinted == 2

\* What IEnumWbemClassObject::Next answers when `left` classes remain
OldPageAnswers ==
    {<<hres, n>> \in HResults \X (0..Min(ChunkSize, driver.left)) :
        FAILED(hres) => n = 0}

\* std::optional<std::vector<WbemClass>> EnumWbemClasses::next() of the
\* earlier revision: a vector of `returned` objects on every success, an
\* empty one included, and nullopt on a failure only.
OldNext(hres, n) ==
    IF SUCCEEDED(hres)
    THEN <<[i \in 1..n |-> driver.fetched + i]>>
    ELSE <<>>

\* The enumerator after that call
Fetched(hres, n) ==
    [driver EXCEPT !.left = driver.left - n,
                   !.fetched = driver.fetched + n,
                   !.exhausted = driver.exhausted \/ (SUCCEEDED(hres) /\ n = 0)]

\* for (auto items = enumClasses.next(); ...
ListingInit ==
    /\ driver.pc = "for-init"
    /\ \E a \in OldPageAnswers :
         driver' = [Fetched(a[1], a[2]) EXCEPT !.items = OldNext(a[1], a[2]),
                                              !.pc = "for-test"]
    /\ UNCHANGED <<walkVars, conv, chk>>

\* ...; items; ...
ListingTest ==
    /\ driver.pc = "for-test"
    /\ driver' = IF driver.items # <<>>
                 THEN [driver EXCEPT !.pc = "for-body", !.idx = 1]
                 ELSE [driver EXCEPT !.pc = "left"]
    /\ UNCHANGED <<walkVars, conv, chk>>

\* for (auto &item: items.value()) { auto className = item.get(L"__CLASS");
\* std::wcout << className.value().variant.bstrVal << std::endl; }
\* value() throws std::bad_optional_access when Get failed, and wWinMain
\* has no handler.
ListingPrint ==
    /\ driver.pc = "for-body"
    /\ driver.idx <= Len(driver.items[1])
    /\ \E hres \in HResults :
         LET item == driver.items[1][driver.idx] IN
         driver' = IF SUCCEEDED(hres)
                   THEN [driver EXCEPT
                           !.printed[item] = Min(@ + 1, MaxPrinted),
                           !.idx = @ + 1]
                   ELSE [driver EXCEPT !.pc = "terminated"]
    /\ UNCHANGED <<walkVars, conv, chk>>

\* The range-for over items.value() is at its end.
ListingEndOfPage ==
    /\ driver.pc = "for-body"
    /\ driver.idx > Len(driver.items[1])
    /\ driver' = [driver EXCEPT !.pc = "for-step"]
    /\ UNCHANGED <<walkVars, conv, chk>>

\* ...; enumClasses.next()) : the optional it returns is a discarded
\* temporary, and items is not assigned.
ListingStep ==
    /\ driver.pc = "for-step"
    /\ \E a \in OldPageAnswers :
         driver' = [Fetched(a[1], a[2]) EXCEPT !.pc = "for-test"]
    /\ UNCHANGED <<walkVars, conv, chk>>

InitListing ==
    /\ pc = "idle"
    /\ classRegex = <<>>
    /\ propertyRegex = <<>>
    /\ output = NewWmiEnum
    /\ returned = NULL
    /\ pending = <<>>
    /\ items = 0
    /\ itemIdx = 0
    /\ className = <<>>
    /\ instances = 0
    /\ instIdx = 0
    /\ wmiInstance = NewWmiInstance
    /\ pair = 0
    /\ calls = [k \in CallKinds |-> 0]
    /\ failures = <<>>
    /\ fuel = MaxObjects
    /\ world = <<>>
    /\ eod = "none"
    /\ held = NoneHeld
    /\ page = NoPage
    /\ released = <<>>
    /\ acc = NoAccess
    /\ conv = NoConversion
    /\ chk = NoCheck
    /\ driver \in {[pc |-> "for-init", left |-> l, fetched |-> 0,
                     items |-> <<>>, idx |-> 0,
                     printed |-> [i \in 1..MaxObjects |-> 0],
                     exhausted |-> FALSE] : l \in 0..MaxObjects}

NextListing ==
    \/ ListingInit
    \/ ListingTest
    \/ ListingPrint
    \/ ListingEndOfPage
    \/ ListingStep

\* The loop runs on one thread that nothing suspends.
SpecListing == InitListing /\ [][NextListing]_vars /\ WF_vars(NextListing)

---------------------------------------------------------------------------
(* Properties *)

InvalidPattern == ~RegexValid(classRegex) \/ ~RegexValid(propertyRegex)

\* The invocation has ended by return (the handle is in the caller's hands).
Done == pc = "done"

\* C1: WmiEnum_new always returns normally with a non-null handle: it never
\* ends the process, no exception leaves it, and when a step failed the
\* result it returns carries that failure's message.
C1_AlwaysReturnsResult ==
    /\ pc \notin {"crashed", "propagated"}
    /\ Done => /\ returned # NULL
               /\ failures # <<>> => output.error = <<failures[1].what>>

\* C2: a failure after k records were appended leaves those k records in
\* the returned result, which has its error set: from the failing step on
\* the records do not change, and WmiEnum_instanceCount keeps returning k.
C2_RecordsKeptOnFailure ==
    /\ [](Done /\ failures # <<>> => WmiEnum_error(output) # NULL)
    /\ [][failures' # <<>> /\ pc' # "idle" =>
            /\ output'.instances = output.instances
            /\ WmiEnum_instanceCount(output') = WmiEnum_instanceCount(output)]_vars

C2_Witness ==
    /\ Done
    /\ failures # <<>>
    /\ WmiEnum_error(output) # NULL
    /\ WmiEnum_instanceCount(output) >= 1

\* C3: with an invalid class or property pattern the returned result has a
\* non-null error and no instances.
C3_InvalidPatternReported ==
    Done /\ InvalidPattern =>
        /\ WmiEnum_error(output) # NULL
        /\ WmiEnum_instanceCount(output) = 0

C3_Witness ==
    /\ Done
    /\ RegexValid(classRegex)
    /\ ~RegexValid(propertyRegex)
    /\ WmiEnum_error(output) # NULL

\* C4: with an invalid pattern the invocation issues no OS call at all.
C4_InvalidPatternNoOsCall ==
    pc # "idle" /\ InvalidPattern => \A k \in CallKinds : calls[k] = 0

C4_Witness ==
    /\ Done
    /\ InvalidPattern
    /\ failures # <<>>
    /\ \A k \in CallKinds : calls[k] = 0

\* The setup steps that come after `step` in WmiEnum_new
LaterSetup(step) ==
    LET order == <<"CoInitializeEx", "CoCreateInstance", "CoInitializeSecurity",
                   "ConnectServer", "CoSetProxyBlanket", "CreateClassEnum">>
        at == CHOOSE i \in 1..Len(order) : order[i] = step
    IN  {order[j] : j \in (at + 1)..Len(order)}

\* C5: when a setup step fails, the failed step was issued once (no retry),
\* no later setup step and no class, instance or property enumeration call
\* is issued, and the result has a non-null error and no instances.
C5_SetupFailureAborts ==
    failures # <<>> /\ failures[1].step \in SetupCalls =>
        /\ calls[failures[1].step] = 1
        /\ \A k \in LaterSetup(failures[1].step) : calls[k] = 0
        /\ \A k \in EnumCalls : calls[k] = 0
        /\ output.instances = <<>>
        /\ Done => /\ WmiEnum_error(output) # NULL
                   /\ WmiEnum_instanceCount(output) = 0

C5_Witness ==
    /\ Done
    /\ failures # <<>>
    /\ failures[1].step = "ConnectServer"
    /\ WmiEnum_error(output) # NULL

\* C6: for an instance index at or past WmiEnum_instanceCount, the class-name
\* accessor returns null and the property-count accessor returns 0.
C6_InstanceIndexOutOfRange ==
    acc.instance >= WmiEnum_instanceCount(output) =>
        /\ acc.fn = "WmiEnum_instanceClassName" => acc.ret = NULL
        /\ acc.fn = "WmiEnum_instancePropertyCount" => acc.ret = 0

C6_Witness ==
    /\ acc.fn = "WmiEnum_instanceClassName"
    /\ WmiEnum_instanceCount(output) >= 1
    /\ acc.instance = WmiEnum_instanceCount(output)
    /\ output.error # <<>>

\* Is (instance, property) the position of a stored property ?
InRange(instance, property) ==
    /\ instance < Len(output.instances)
    /\ property < Len(output.instances[instance + 1].properties)

\* C7: the key and value accessors return null when the instance index is
\* out of range and when the property index is at or past the instance's
\* property count; they never return what lies outside the sequences.
C7_PropertyIndexOutOfRange ==
    acc.fn \in {"WmiEnum_instancePropertyKey", "WmiEnum_instancePropertyValue"} =>
        /\ ~InRange(acc.instance, acc.property) => acc.ret = NULL
        /\ acc.ret # <<OutOfBounds>>

C7_Witness ==
    /\ acc.fn = "WmiEnum_instancePropertyKey"
    /\ acc.instance < WmiEnum_instanceCount(output)
    /\ WmiEnum_instancePropertyCount(output, acc.instance) >= 1
    /\ acc.property = WmiEnum_instancePropertyCount(output, acc.instance)
    /\ acc.ret = NULL

\* C8: for in-range indices the accessors return the stored class name,
\* property count, key and value, never null.
C8_InRangeReturnsStored ==
    acc.instance < Len(output.instances) =>
        LET record == output.instances[acc.instance + 1] IN
        /\ acc.fn = "WmiEnum_instanceClassName" => acc.ret = <<record.className>>
        /\ acc.fn = "WmiEnum_instancePropertyCount" =>
               acc.ret = Len(record.properties)
        /\ acc.fn = "WmiEnum_instancePropertyKey"
             /\ acc.property < Len(record.properties) =>
               acc.ret = <<record.properties[acc.property + 1][1]>>
        /\ acc.fn = "WmiEnum_instancePropertyValue"
             /\ acc.property < Len(record.properties) =>
               acc.ret = <<record.properties[acc.property + 1][2]>>

C8_Witness ==
    /\ acc.fn = "WmiEnum_instancePropertyValue"
    /\ InRange(acc.instance, acc.property)
    /\ acc.ret = << <<"x", ",", " ", "y">> >>

\* C9: WmiEnum_error returns null exactly when no step of the walk failed;
\* otherwise exactly one step failed and it returns that failure's message.
C9_ErrorIffFailure ==
    Done =>
        /\ WmiEnum_error(output) = NULL <=> failures = <<>>
        /\ Len(failures) <= 1
        /\ failures # <<>> => WmiEnum_error(output) = <<failures[1].what>>
        /\ acc.fn = "WmiEnum_error" => acc.ret = WmiEnum_error(output)

C9_Witness ==
    /\ Done
    /\ acc.fn = "WmiEnum_error"
    /\ failures # <<>>
    /\ failures[1].step = "Next(instances)"
    /\ acc.ret = <<[text |-> "Could not Enum classes.",
                    code |-> <<"8", "0", "0", "0", "4", "0", "0", "5">>]>>

\* The records made so far: those of the result and the one being filled.
Recorded ==
    {output.instances[i] : i \in 1..Len(output.instances)}
    \cup (IF pc = "Next(properties)" THEN {wmiInstance} ELSE {})

\* C10: every record has a class name the class pattern matches as a whole
\* and only properties whose names the property pattern matches as a whole.
C10_RecordedNamesMatchWhole ==
    \A r \in Recorded :
        /\ MatchHere(classRegex, 1, r.className, 1)
        /\ \A i \in 1..Len(r.properties) :
               MatchHere(propertyRegex, 1, r.properties[i][1], 1)

\* Two properties came from the OS, one was recorded.
C10_Witness ==
    /\ Done
    /\ failures = <<>>
    /\ classRegex = <<"a">>
    /\ propertyRegex = <<"a">>
    /\ Len(output.instances) = 1
    /\ Len(output.instances[1].properties) = 1
    /\ calls["Next(properties)"] = 3

---------------------------------------------------------------------------
(* The walk against what the OS handed out *)

FailureFree == failures = <<>>

\* The instance objects handed out, in the order of the class enumeration
\* and then of the instance enumerations, each with its class name and the
\* properties its enumeration returned.
RECURSIVE InstancesOf(_)
InstancesOf(w) ==
    IF w = <<>> THEN <<>>
    ELSE [i \in 1..Len(w[1].instances) |->
             [className |-> w[1].name, properties |-> w[1].instances[i]]]
         \o InstancesOf(Tail(w))

NameMatches(name, pattern) == MatchHere(pattern, 1, name, 1)

\* The properties of a list whose names the property pattern matches
Matching(properties) ==
    SelectSeq(properties, LAMBDA q : NameMatches(q[1], propertyRegex))

\* The first n of elems with ", " between consecutive ones.
RECURSIVE JoinedUpTo(_, _)
JoinedUpTo(elems, n) ==
    IF n = 0 THEN <<>>
    ELSE IF n = 1 THEN elems[1]
    ELSE JoinedUpTo(elems, n - 1) \o <<",", " ">> \o elems[n]

\* The values that have no strings: empty, null, and the arrays whose
\* elements are not strings.
ZeroStrings(v) ==
    IF HasFlag(v.vt, VT_ARRAY) THEN ElemType(v.vt) # VT_BSTR
    ELSE v.vt \in {VT_EMPTY, VT_NULL}

\* The string a value stands for: a scalar as text, the strings of an array
\* joined by ", ", nothing for a value without strings.
Stringification(v) ==
    IF ZeroStrings(v) THEN <<>>
    ELSE IF HasFlag(v.vt, VT_ARRAY) THEN JoinedUpTo(v.elems, Len(v.elems))
    ELSE ChangeTypeToBstr(v)

Expected(properties) ==
    [j \in 1..Len(Matching(properties)) |->
        <<Matching(properties)[j][1], Stringification(Matching(properties)[j][2])>>]

\* C11: in a failure-free walk the record of every instance holds, for each
\* returned property whose name the property pattern matches as a whole,
\* one (key, value) pair, in the order returned, the value being the
\* stringification of the property's value.
C11_MatchingPropertiesRecorded ==
    Done /\ FailureFree =>
        \A i \in 1..Len(InstancesOf(world)) :
            /\ i <= Len(output.instances)
            /\ output.instances[i].properties =
                   Expected(InstancesOf(world)[i].properties)

\* The arrays whose data getStrings reads as strings though they hold none
ReadAsStrings(v) ==
    HasFlag(v.vt, VT_ARRAY) /\ ElemType(v.vt) # VT_BSTR /\ HasFlag(v.vt, VT_BSTR)

\* What does hold of the records: the keys are those of the matching
\* properties, in order, and so are the values of all properties but those
\* that are arrays read as strings.
C11_ExceptArraysReadAsStrings ==
    Done /\ FailureFree =>
        \A i \in 1..Len(InstancesOf(world)) :
            /\ i <= Len(output.instances)
            /\ LET recorded == output.instances[i].properties
                   offered == Matching(InstancesOf(world)[i].properties)
               IN  /\ Len(recorded) = Len(offered)
                   /\ \A j \in 1..Len(offered) :
                         /\ recorded[j][1] = offered[j][1]
                         /\ ~ReadAsStrings(offered[j][2]) =>
                                recorded[j][2] = Stringification(offered[j][2])

\* C12 as stated: a matching property whose value has no strings leaves no
\* record: an instance has as many records as it has matching properties
\* whose values have strings (the instances with an array read as strings
\* left aside).
C12_ZeroStringsDropped ==
    Done /\ FailureFree =>
        \A i \in 1..Len(InstancesOf(world)) :
            LET offered == Matching(InstancesOf(world)[i].properties) IN
            (\A j \in 1..Len(offered) : ~ReadAsStrings(offered[j][2])) =>
                /\ i <= Len(output.instances)
                /\ Len(output.instances[i].properties) =
                       Len(SelectSeq(offered, LAMBDA q : ~ZeroStrings(q[2])))

\* C12, amended: a matching property whose value is empty or null (or an
\* array that getStrings skips) is recorded like any other, with the empty
\* string as its value.
C12_ZeroStringsRecordedEmpty ==
    Done /\ FailureFree =>
        \A i \in 1..Len(InstancesOf(world)) :
            /\ i <= Len(output.instances)
            /\ LET recorded == output.instances[i].properties
                   offered == Matching(InstancesOf(world)[i].properties)
               IN  /\ Len(recorded) = Len(offered)
                   /\ \A j \in 1..Len(offered) :
                         ZeroStrings(offered[j][2]) /\ ~ReadAsStrings(offered[j][2])
                             => recorded[j] = <<offered[j][1], <<>>>>

\* A null value between two others, all recorded.
C12_Witness ==
    /\ Done
    /\ FailureFree
    /\ Len(output.instances) = 1
    /\ Len(output.instances[1].properties) = 2
    /\ output.instances[1].properties[1] = << <<"a">>, <<>> >>
    /\ world[1].instances[1][1][2].vt = VT_NULL
    /\ output.instances[1].properties[2][2] = <<"7">>

\* The classes read so far whose names the class pattern matches
MatchingClasses ==
    {i \in 1..Len(world) : NameMatches(world[i].name, classRegex)}

\* C15: in a failure-free walk every instance object that the instance
\* enumeration of a matching class returned has one record, in the order
\* of the class enumeration and then of the instance enumeration (a record
\* without properties when no name matches); an instance enumeration was
\* made for exactly the matching classes; WmiEnum_instanceCount is the
\* number of those objects.
C15_OneRecordPerInstance ==
    Done /\ FailureFree =>
        /\ calls["CreateInstanceEnum"] = Cardinality(MatchingClasses)
        /\ WmiEnum_instanceCount(output) = Len(InstancesOf(world))
        /\ \A i \in 1..Len(InstancesOf(world)) :
              /\ output.instances[i].className = InstancesOf(world)[i].className
              /\ NameMatches(output.instances[i].className, classRegex)
              /\ Matching(InstancesOf(world)[i].properties) = <<>> =>
                     output.instances[i].properties = <<>>

\* Two instances of one class, the first with a property that does not
\* match, the second with none.
C15_Witness ==
    /\ Done
    /\ FailureFree
    /\ Len(world) = 1
    /\ Len(world[1].instances) = 2
    /\ Len(world[1].instances[1]) = 1
    /\ WmiEnum_instanceCount(output) = 2
    /\ output.instances[1].properties = <<>>

\* Did every setup call and every paging call of the class enumeration succeed ?
SetupAndClassPagingSucceed ==
    \A i \in 1..Len(failures) :
        failures[i].step \notin SetupCalls \cup {"Next(classes)"}

\* C16 as stated: when the class pattern matches none of the class names
\* returned and setup and class paging succeed, the result has no
\* instances and a null error, and no instance enumeration was created.
C16_NoMatchingClass ==
    Done /\ ~InvalidPattern /\ MatchingClasses = {}
         /\ SetupAndClassPagingSucceed =>
        /\ WmiEnum_instanceCount(output) = 0
        /\ WmiEnum_error(output) = NULL
        /\ calls["CreateInstanceEnum"] = 0

\* C16, amended: the same when also every read of a class name (__CLASS)
\* succeeds; a failed read ends the walk with an error, still without
\* instances and without an instance enumeration.
C16_NoMatchingClassNamesRead ==
    Done /\ ~InvalidPattern /\ MatchingClasses = {}
         /\ SetupAndClassPagingSucceed =>
        /\ WmiEnum_instanceCount(output) = 0
        /\ calls["CreateInstanceEnum"] = 0
        /\ WmiEnum_error(output) = NULL <=>
               \A i \in 1..Len(failures) : failures[i].step # "Get(__CLASS)"

C16_Witness ==
    /\ Done
    /\ classRegex = <<"a">>
    /\ Len(world) = 2
    /\ MatchingClasses = {}
    /\ FailureFree
    /\ WmiEnum_error(output) = NULL
    /\ WmiEnum_instanceCount(output) = 0

\* C17: the first failure aborts the walk at all levels: there is at most
\* one failure; after it no OS call is issued, no record and no property
\* is appended, and the error, once set, stays; the result carries the
\* failure's message.
C17_FirstFailureAborts ==
    /\ [](Len(failures) <= 1)
    /\ [](Done /\ ~FailureFree => output.error = <<failures[1].what>>)
    /\ [][~FailureFree /\ pc' # "idle" =>
            /\ calls' = calls
            /\ output'.instances = output.instances
            /\ wmiInstance' = wmiInstance
            /\ (output.error # <<>> => output'.error = output.error)]_vars

\* A failed conversion of a value, at the innermost level, after a record.
C17_Witness ==
    /\ Done
    /\ Len(failures) = 1
    /\ failures[1].step = "getString"
    /\ Len(output.instances) = 1
    /\ output.error = <<failures[1].what>>

\* C18: the end of data is no error.  An empty page of classes ends the
\* walk, an empty page of instances ends the instances of that class only
\* (the walk goes on with the next class), WBEM_S_NO_MORE_DATA ends the
\* properties of that instance only (its record is appended, the walk goes
\* on with the next instance); none of them throws or sets the error.
C18_EndOfDataIsNoError ==
    /\ [](eod # "none" =>
            /\ pending = <<>>
            /\ pc # "catch"
            /\ (FailureFree => output.error = <<>>))
    /\ [][(pc = "Next(classes)" /\ eod' = "classes") =>
              (pc' = "done" /\ output' = output)]_vars
    /\ [][(pc = "Next(instances)" /\ eod' = "instances") =>
              /\ pc' = IF itemIdx + 1 < items THEN "Get(__CLASS)"
                                              ELSE "Next(classes)"
              /\ (itemIdx + 1 < items => itemIdx' = itemIdx + 1)
              /\ output' = output]_vars
    /\ [][(pc = "Next(properties)" /\ eod' = "properties") =>
              /\ pc' = IF instIdx + 1 < instances THEN "BeginEnumeration"
                                                  ELSE "Next(instances)"
              /\ output'.instances = Append(output.instances, wmiInstance)
              /\ output'.error = output.error]_vars

\* A class without instances in a page of two, then a class with one.
C18_Witness ==
    /\ Done
    /\ FailureFree
    /\ calls["Next(classes)"] = 2
    /\ Len(world) = 2
    /\ world[1].instances = <<>>
    /\ calls["Next(instances)"] = 3
    /\ Len(output.instances) = 1
    /\ WmiEnum_error(output) = NULL

\* What the step at pc uses is still held.
InUse(step) ==
    CASE step \in {"CoCreateInstance", "CoInitializeSecurity"} -> {"com"}
      [] step = "ConnectServer" -> {"com", "locator"}
      [] step \in {"CoSetProxyBlanket", "CreateClassEnum"} -> {"com", "services"}
      [] step = "Next(classes)" -> {"com", "enumerator"}
      [] step = "Get(__CLASS)" -> {"com", "object"}
      [] step = "CreateInstanceEnum" -> {"com", "services", "variant"}
      [] step = "Next(instances)" -> {"com", "enumerator"}
      [] step \in {"BeginEnumeration", "Next(properties)"} -> {"com", "object"}
      [] OTHER -> {}

NeverReleasedTwice == \A k \in ResourceKinds : held[k] >= 0

NeverUsedAfterRelease == \A k \in InUse(pc) : held[k] >= 1

\* C19: every OS resource acquired during WmiEnum_new is released exactly
\* once on every exit path: never twice, never used after its release, and
\* none is held when WmiEnum_new has returned.
C19_ReleasedExactlyOnce ==
    /\ NeverReleasedTwice
    /\ NeverUsedAfterRelease
    /\ Done => held = NoneHeld

\* Is s a plain string (of characters) ?
IsPlainString(s) == \A i \in 1..Len(s) : s[i] \in STRING

\* C20: when WmiEnum_new has returned, with or without error, the COM
\* library was uninitialized as often as initialized and no locator,
\* services proxy, enumerator or object is held; the result owns strings.
C20_SessionEndsWithCall ==
    Done =>
        /\ \A k \in {"com", "locator", "services", "enumerator", "object"} :
              held[k] = 0
        /\ \A i \in 1..Len(output.instances) :
              /\ IsPlainString(output.instances[i].className)
              /\ \A j \in 1..Len(output.instances[i].properties) :
                    /\ IsPlainString(output.instances[i].properties[j][1])
                    /\ IsPlainString(output.instances[i].properties[j][2])

\* A failure in the middle of the walk, with every wrapper alive.
C20_Witness ==
    /\ Done
    /\ ~FailureFree
    /\ failures[1].step = "Next(properties)"
    /\ Len(output.instances) = 1
    /\ calls["CoInitializeEx"] = 1
    /\ held["com"] = 0
    /\ held["object"] = 0

\* Is v a one-dimensional array of BSTR (held directly or by reference) ?
IsBstrArray(v) == v.vt \in {VT_ARRAY + VT_BSTR, VT_ARRAY + VT_BYREF + VT_BSTR}

\* C13: for an array of n strings, whatever its lower bound, getStrings
\* yields the n elements in order and getString yields one string: the
\* elements in order with ", " between consecutive ones (the element itself
\* for n = 1, the empty string for n = 0); the conversion never leaves the
\* array's data.
C13_StringArrayJoined ==
    conv.fn # "none" /\ IsBstrArray(conv.value) =>
        /\ conv.out.kind \in {"ok", "throw"}
        /\ conv.out.kind = "ok" /\ conv.fn = "getStrings" =>
               conv.out.strings = conv.value.elems
        /\ conv.out.kind = "ok" /\ conv.fn = "getString" =>
               conv.out.strings =
                   JoinedUpTo(conv.value.elems, Len(conv.value.elems))

C13_Witness ==
    /\ conv.fn = "getString"
    /\ conv.value.vt = VT_ARRAY + VT_BSTR
    /\ conv.value.elems = << <<"x">>, <<"y">>, <<"x">> >>
    /\ conv.value.lbound = -1
    /\ conv.out.kind = "ok"
    /\ conv.out.strings = <<"x", ",", " ", "y", ",", " ", "x">>

\* C14: for an array whose element type is not BSTR, getStrings produces no
\* strings and does not read the array's data as BSTR elements (so it
\* returns normally, with nothing).
C14_OnlyBstrArraysRead ==
    /\ conv.fn = "getStrings"
    /\ HasFlag(conv.value.vt, VT_ARRAY)
    /\ ElemType(conv.value.vt) # VT_BSTR
    => conv.out = Ok(<<>>)

\* The arrays getStrings does leave alone: those whose element type has the
\* bit of value 8 clear.
C14_ArraysWithoutBit3Skipped ==
    /\ conv.fn = "getStrings"
    /\ HasFlag(conv.value.vt, VT_ARRAY)
    /\ ElemType(conv.value.vt) \in {VT_I4, VT_UI1}
    => conv.out = Ok(<<>>)

---------------------------------------------------------------------------
(* The result as a function of the patterns and of the exchange with the OS *)

\* The instances whose property enumeration came to its end: those begun,
\* but for the one a failure interrupted.
Completed ==
    calls["BeginEnumeration"]
    - (IF failures # <<>> /\ failures[1].step \in
              {"BeginEnumeration", "Next(properties)", "getString"}
       THEN 1 ELSE 0)

\* The result that the patterns, the requests made and the answers of the OS
\* determine: the message of the first failure, and for each completed
\* instance its class name and its matching properties, stringified.
ResultOf ==
    [error |-> IF failures = <<>> THEN <<>> ELSE <<failures[1].what>>,
     instances |->
        [i \in 1..Completed |->
            [className |-> InstancesOf(world)[i].className,
             properties |-> Expected(InstancesOf(world)[i].properties)]]]

\* Between two calls nothing of a call is left in the process.
NothingKept ==
    pc = "idle" =>
        /\ <<items, itemIdx, className, instances, instIdx, pair>>
               = <<0, 0, <<>>, 0, 0, 0>>
        /\ wmiInstance = NewWmiInstance
        /\ pending = <<>>

\* C21: WmiEnum_new is deterministic and keeps no state between calls: the
\* result of every call, the first or a later one of the process, is the
\* one its patterns and the answers of the OS determine (same error, same
\* records in the same order), and nothing of a call is left after it.
C21_SameResponsesSameResult ==
    /\ Done => output = ResultOf
    /\ NothingKept

\* Has a completed instance a matching property that is an array read as
\* strings ?
SomeArrayReadAsStrings ==
    \E i \in 1..Completed :
        LET offered == Matching(InstancesOf(world)[i].properties) IN
        \E j \in 1..Len(offered) : ReadAsStrings(offered[j][2])

\* What does hold: the same, the calls aside in which such an array was
\* converted (its strings are what lies in memory, not an answer of the OS).
C21_ExceptArraysReadAsStrings ==
    /\ Done /\ ~SomeArrayReadAsStrings => output = ResultOf
    /\ NothingKept

---------------------------------------------------------------------------
(* Progress of the walk *)

RECURSIVE PropertiesOf(_)
PropertiesOf(insts) ==
    IF insts = <<>> THEN 0
    ELSE Len(insts[1].properties) + PropertiesOf(Tail(insts))

\* The class objects the OS has handed out: what it handed out in all, less
\* the instance objects and the properties.
ClassObjectsHandedOut ==
    MaxObjects - fuel - Len(InstancesOf(world)) - PropertiesOf(InstancesOf(world))

\* C22: with finite enumerations every call of WmiEnum_new ends (it returns;
\* the conversion of C14 aside, in which the process may end).  It ends
\* either without failure after an empty page of classes, or with its one
\* failure.  No object is visited more often than once (no more reads of
\* __CLASS than class objects, no more calls of BeginEnumeration than
\* instance objects) and, when the walk ends without failure, every object
\* was visited.  Within a page the walk only goes forward, by one object.
\* While a call is under way it has a next step to take.
C22_WalkTerminates ==
    /\ Running ~> (pc \in {"done", "crashed"})
    /\ []StepEnabledWhenRunning
    /\ [](pc # "idle" =>
            /\ calls["Get(__CLASS)"] <= ClassObjectsHandedOut
            /\ calls["BeginEnumeration"] <= Len(InstancesOf(world)))
    /\ [](Done =>
            \/ /\ FailureFree
               /\ page = [asked |-> ChunkSize, returned |-> 0, wrapped |-> <<>>]
               /\ calls["Get(__CLASS)"] = ClassObjectsHandedOut
               /\ calls["BeginEnumeration"] = Len(InstancesOf(world))
            \/ /\ Len(failures) = 1
               /\ output.error = <<failures[1].what>>)
    /\ [][(pc' = "Get(__CLASS)") =>
             IF pc = "Next(classes)" THEN itemIdx' = 0
             ELSE (itemIdx' = itemIdx + 1 /\ items' = items)]_vars
    /\ [][(pc' = "BeginEnumeration") =>
             IF pc = "Next(instances)" THEN instIdx' = 0
             ELSE (instIdx' = instIdx + 1 /\ instances' = instances)]_vars

\* Two pages of classes, of two objects and of one, all visited.
C22_Witness ==
    /\ Done
    /\ FailureFree
    /\ calls["Next(classes)"] = 3
    /\ calls["Get(__CLASS)"] = 3
    /\ ClassObjectsHandedOut = 3
    /\ calls["BeginEnumeration"] >= 1

---------------------------------------------------------------------------
(* Paging *)

\* The objects of a page of n, in page order
PageOrder(n) == [k \in 1..n |-> k]

\* C23: every round trip of EnumWbemClasses::next asks for 128 objects and
\* wraps exactly the `returned` objects the OS reports, in page order,
\* reading no slot the OS has not written and none past the buffer.  A page
\* with objects, however few, is walked and does not end the enumeration:
\* the class enumeration ends only with a page of zero objects (or a
\* failure), and so does each instance enumeration.
C23_PagesOfChunkSize ==
    /\ [](page # NoPage =>
            /\ page.asked = 128
            /\ page.returned <= 128
            /\ page.wrapped = PageOrder(page.returned)
            /\ \A k \in 1..Len(page.wrapped) :
                   page.wrapped[k] \notin {Unset, PastBuffer})
    /\ [][(pc = "Next(classes)" /\ page'.returned > 0) =>
             (pc' = "Get(__CLASS)" /\ items' = page'.returned /\ itemIdx' = 0)]_vars
    /\ [][(pc = "Next(instances)" /\ page'.returned > 0) =>
             (pc' = "BeginEnumeration" /\ instances' = page'.returned
              /\ instIdx' = 0)]_vars
    /\ [][(pc' = "done" /\ pc # "done") =>
             \/ pc = "catch"
             \/ (pc = "Next(classes)" /\ page'.asked = 128
                 /\ page'.returned = 0)]_vars
    /\ [][(pc = "Next(instances)" /\ pc' \in {"Get(__CLASS)", "Next(classes)"}) =>
             (page'.asked = 128 /\ page'.returned = 0)]_vars

\* A second page of classes, of two objects, after a first short one.
C23_Witness ==
    /\ pc = "Get(__CLASS)"
    /\ calls["Next(classes)"] = 2
    /\ page.asked = 128
    /\ page.returned = 2
    /\ page.wrapped = <<1, 2>>
    /\ items = 2
    /\ itemIdx = 0

---------------------------------------------------------------------------
(* Scalars *)

\* The text of the scalars handed to the conversion
ScalarText(v) ==
    IF v.vt = VT_BSTR THEN v.bstr
    ELSE IF v.num = 42 THEN <<"4", "2">>
    ELSE <<"7">>

---------------------------------------------------------------------------
(* Records and the instances they are of *)

InstanceSteps == {"BeginEnumeration", "Next(properties)", "getString"}

\* C25: a record is appended only when the property enumeration of its
\* instance has come to its end.  While an instance is walked the result
\* holds the records of the instances before it and no other; a failure in
\* beginning or iterating its properties or in converting a value leaves
\* the result as it was, so the instance has no record.  Every record in
\* the result has the class name of its instance and one property for each
\* matching property the instance's enumeration returned, in order (with
\* its stringification, the arrays read as strings aside).
C25_RecordsAreComplete ==
    /\ [](pc \in {"BeginEnumeration", "Next(properties)"} =>
            Len(output.instances) = Len(InstancesOf(world)) - instances + instIdx)
    /\ [](pc # "idle" =>
            /\ Len(output.instances) <= Len(InstancesOf(world))
            /\ \A i \in 1..Len(output.instances) :
                  LET recorded == output.instances[i].properties
                      offered == Matching(InstancesOf(world)[i].properties)
                  IN  /\ output.instances[i].className =
                             InstancesOf(world)[i].className
                      /\ Len(recorded) = Len(offered)
                      /\ \A j \in 1..Len(offered) :
                            /\ recorded[j][1] = offered[j][1]
                            /\ ~ReadAsStrings(offered[j][2]) =>
                                   recorded[j][2] = Stringification(offered[j][2]))
    /\ [](Done /\ failures # <<>> /\ failures[1].step \in InstanceSteps =>
            Len(output.instances) = calls["BeginEnumeration"] - 1)
    /\ [][(pc \in {"BeginEnumeration", "Next(properties)"} /\ pc' \in {"catch", "crashed"}) =>
             output'.instances = output.instances]_vars
    /\ [][(output'.instances # output.instances /\ pc' # "idle") =>
             /\ pc = "Next(properties)"
             /\ eod' = "properties"
             /\ output'.instances = Append(output.instances, wmiInstance)]_vars

\* The second instance of a page had a matching property recorded in its
\* record when the next call of Next failed: the result holds the first only.
C25_Witness ==
    /\ Done
    /\ failures # <<>>
    /\ failures[1].step = "Next(properties)"
    /\ Len(InstancesOf(world)) = 2
    /\ Len(Matching(InstancesOf(world)[2].properties)) = 1
    /\ calls["BeginEnumeration"] = 2
    /\ WmiEnum_instanceCount(output) = 1

---------------------------------------------------------------------------
(* Order of release *)

\* The order in which WmiEnum_new acquires what its objects own
Acquisition ==
    <<"library", "locator", "services", "enumClasses", "items",
      "rawClassName", "enumInstances", "instances", "pair">>

AcquiredAt ==
    [o \in {Acquisition[i] : i \in 1..Len(Acquisition)} |->
        CHOOSE i \in 1..Len(Acquisition) : Acquisition[i] = o]

Has(log, o) == \E i \in 1..Len(log) : log[i] = o

\* In log, a comes before b when both are there
Before(log, a, b) ==
    \A j \in 1..Len(log) : log[j] = b => \A i \in j..Len(log) : log[i] # a

InterfaceKinds == {"locator", "services", "enumerator", "object"}

\* The COM calls made after CoInitializeEx
LaterCalls == CallKinds \ {"CoInitializeEx"}

\* C26: whenever control leaves scopes, the objects release what they own
\* in the reverse order of its acquisition: the objects of a page and the
\* instance enumerator before the class enumerator, the class enumerator
\* before the services proxy, the proxy before the locator, and the COM
\* library (CoUninitialize) last, when no interface is held any more.  The
\* COM library is initialized before any other COM call is made and is
\* held during every one of them.
C26_ReleasedInReverseOrder ==
    /\ released # <<>> =>
          /\ \A i \in 1..(Len(released) - 1) :
                AcquiredAt[released[i]] > AcquiredAt[released[i + 1]]
          /\ \A o \in {"items", "instances", "enumInstances"} :
                Before(released, o, "enumClasses")
          /\ Before(released, "enumClasses", "services")
          /\ Before(released, "services", "locator")
          /\ Before(released, "locator", "library")
          /\ Has(released, "library") =>
                /\ released[Len(released)] = "library"
                /\ \A k \in InterfaceKinds : held[k] = 0
    /\ pc \in {"catch", "done"} =>
          held["com"] = 0 /\ \A k \in InterfaceKinds : held[k] = 0
    /\ (\E k \in LaterCalls : calls[k] > 0) =>
          /\ calls["CoInitializeEx"] = 1
          /\ \A i \in 1..Len(failures) : failures[i].step # "CoInitializeEx"
    /\ pc \in LaterCalls => held["com"] = 1
    /\ (\E k \in InterfaceKinds : held[k] > 0) => held["com"] = 1

\* A failure of Next in the innermost loop: every object is alive and gone.
C26_Witness ==
    /\ Done
    /\ failures # <<>>
    /\ failures[1].step = "Next(properties)"
    /\ released = <<"pair", "instances", "enumInstances", "rawClassName",
                    "items", "enumClasses", "services", "locator", "library">>
    /\ held["com"] = 0

---------------------------------------------------------------------------
(* checkResult *)

\* The status codes in hexadecimal, as unsigned 32-bit numbers
HexOf(hres) ==
    CASE hres = -2147483647 - 1 -> <<"8", "0", "0", "0", "0", "0", "0", "0">>
      [] hres = -2147467259 -> <<"8", "0", "0", "0", "4", "0", "0", "5">>
      [] hres = -2147217407 -> <<"8", "0", "0", "4", "1", "0", "0", "1">>
      [] hres = -2147024891 -> <<"8", "0", "0", "7", "0", "0", "0", "5">>
      [] hres = -1 -> <<"f", "f", "f", "f", "f", "f", "f", "f">>
      [] OTHER -> <<>>

\* C27: checkResult throws exactly when the status code is negative as a
\* signed 32-bit number; what it throws is a std::runtime_error whose
\* message is the description followed by the code in hexadecimal; the
\* success codes other than S_OK (S_FALSE, WBEM_S_NO_MORE_DATA, any
\* positive code) make it return.
C27_ThrowsIffNegative ==
    chk.fn = "checkResult" =>
        /\ chk.exc # <<>> <=> chk.hres < 0
        /\ chk.hres \in {S_FALSE, WBEM_S_NO_MORE_DATA, 262148, 2147483647} =>
               chk.exc = <<>>
        /\ chk.exc # <<>> =>
               /\ Len(chk.exc) = 1
               /\ chk.exc[1].type = "std::runtime_error"
               /\ chk.exc[1].what.text = chk.message
               /\ chk.exc[1].what.code = HexOf(chk.hres)

C27_Witness ==
    /\ chk.fn = "checkResult"
    /\ chk.hres = -2147217407
    /\ chk.message = "Could not Enum classes."
    /\ chk.exc # <<>>
    /\ chk.exc[1].what.code = <<"8", "0", "0", "4", "1", "0", "0", "1">>

---------------------------------------------------------------------------
(* The class-listing loop of the earlier wWinMain *)

\* C28: once the class enumeration is exhausted the listing loop is left
\* (or the program has ended on a failed Get), and no class name is
\* printed more than once.
C28_ListingTerminates ==
    /\ [](\A i \in 1..MaxObjects : driver.printed[i] <= 1)
    /\ (driver.exhausted ~> (driver.pc \in {"left", "terminated"}))

=============================================================================
